---- MODULE Spec2Model ----
(***************************************************************************)
(* A model of the Sui utilities of polymedia-suits:                        *)
(*   removeLeadingZeros      address canonicalisation (a pure function)    *)
(*   getCoinOfValue          coin merge/split transaction builder          *)
(*   fetchAllDynamicFields   cursor-paginated fetch                        *)
(*   testRpcLatency          concurrent RPC latency probe, and the sort    *)
(*                           its caller runTest applies to the results     *)
(* Strings the code inspects character by character are sequences of       *)
(* one-character strings; the other strings are TLA+ strings.              *)
(***************************************************************************)
EXTENDS Integers, Sequences, FiniteSets, TLC

VARIABLES
    \* removeLeadingZeros
    address,            \* the argument
    rlzOut,             \* the results of successive applications
    \* getCoinOfValue
    coinTypeArg,        \* the coinType argument as the caller gave it
    coinType,           \* the coinType local, reassigned on entry
    coinValue,          \* argument
    coinPc,             \* "start", "lookup" (awaiting getCoins), "done", "failed"
    getCoinsCalls,      \* the getCoins requests received by the client
    paginatedCoins,     \* the page getCoins resolved with
    txInputs,           \* inputs registered on the TransactionBlock
    txCommands,         \* commands appended to the TransactionBlock
    coinOfValue,        \* the returned TransactionResult
    coinErr,            \* the rejection reason
    lookupErr,          \* the failure the client raised for getCoins
    \* fetchAllDynamicFields
    pages,              \* the server's pages for parentId
    sleepBetweenRequests,
    fetchPc,            \* "loop", "awaitPage", "sleep", "done", "failed"
    allFieldsInfo,
    hasNextPage,
    cursor,
    pageNumber,
    requests,           \* the cursors of the getDynamicFields requests received
    sleeps,             \* the sleep() calls made, each with the number of requests before it
    fetchReturned,
    fetchErr,
    pageErr,            \* the failure the client raised for a page
    \* testRpcLatency and runTest
    endpoints,          \* argument
    mainPc,             \* "map", "await", "returned", "shown"
    nextIdx,            \* index of the next endpoint the map callback runs for
    tasks,              \* the promises of the map callbacks
    outcome,            \* what happened to each endpoint's client: "none" so far,
                        \* "ctorThrew", "resolved" or "rejected"
    startTime,          \* each callback's startTime
    issued,             \* the indexes whose remote call was issued, in issue order
    clock,              \* performance.now()
    results,            \* the array testRpcLatency resolves with
    newResults          \* the array runTest shows

rlzVars == <<address, rlzOut>>
coinVars == <<coinTypeArg, coinType, coinValue, coinPc, getCoinsCalls, paginatedCoins,
              txInputs, txCommands,
              coinOfValue, coinErr, lookupErr>>
fetchVars == <<pages, sleepBetweenRequests, fetchPc, allFieldsInfo, hasNextPage,
               cursor, pageNumber, requests, sleeps, fetchReturned, fetchErr, pageErr>>
probeVars == <<endpoints, mainPc, nextIdx, tasks, outcome, startTime, issued, clock,
               results, newResults>>
vars == <<rlzVars, coinVars, fetchVars, probeVars>>

\* what each operation leaves alone: the state of the other three
notRlzVars == <<coinVars, fetchVars, probeVars>>
notCoinVars == <<rlzVars, fetchVars, probeVars>>
notFetchVars == <<rlzVars, coinVars, probeVars>>
notProbeVars == <<rlzVars, coinVars, fetchVars>>

\* A value that may be absent (null, undefined, not yet set): None, or Some(v)
None == <<>>
Some(v) == <<v>>

Last(s) == s[Len(s)]

\* all sequences over S of length at most n
RECURSIVE SeqsUpTo(_, _)
SeqsUpTo(S, n) ==
    IF n = 0 THEN {<<>>}
    ELSE LET shorter == SeqsUpTo(S, n - 1)
         IN  shorter \cup {Append(s, c) : s \in shorter, c \in S}

(***************************************************************************)
(* removeLeadingZeros                                                      *)
(***************************************************************************)

\* longest address drawn from the alphabet
MaxLen == 5

\* zero digits in the padded forms of an address
MaxPad == 3

Alphabet == {"0", "x", "2", ":"}

\* index of the first character at or after i that is not "0" (Len(s)+1 if none)
RECURSIVE SkipZeros(_, _)
SkipZeros(s, i) ==
    IF i <= Len(s) /\ s[i] = "0" THEN SkipZeros(s, i + 1) ELSE i

\* whether /0x0+/ matches s at index i
MatchesAt(s, i) ==
    /\ i + 2 <= Len(s)
    /\ s[i] = "0"
    /\ s[i + 1] = "x"
    /\ s[i + 2] = "0"

\* where a match of /0x0+/ found at index i ends: the quantifier is greedy
MatchEndShort(s, i) == i + 3
MatchEnd(s, i) == SkipZeros(s, i + 2)

\* s.replaceAll(/0x0+/g, "0x") from index i on: matches are found left to right
\* and do not overlap
RECURSIVE ReplaceFrom(_, _)
ReplaceFrom(s, i) ==
    IF i > Len(s) THEN <<>>
    ELSE IF MatchesAt(s, i)
         THEN <<"0", "x">> \o ReplaceFrom(s, MatchEnd(s, i))
         ELSE <<s[i]>> \o ReplaceFrom(s, i + 1)

removeLeadingZerosNoop(addr) == addr
removeLeadingZeros(addr) == ReplaceFrom(addr, 1)

RECURSIVE Zeros(_)
Zeros(n) == IF n = 0 THEN <<>> ELSE <<"0">> \o Zeros(n - 1)

\* '0x0000000000000000000000000000000000000000000000000000000000000002'
HexDigits == 64
LongTwo == <<"0", "x">> \o Zeros(HexDigits - 1) \o <<"2">>

\* one more application: of the argument first, then of the previous result
Normalize ==
    /\ Len(rlzOut) < 2
    /\ rlzOut' = Append(rlzOut,
                        removeLeadingZeros(IF rlzOut = <<>> THEN address ELSE Last(rlzOut)))
    /\ UNCHANGED address
    /\ UNCHANGED notRlzVars

(***************************************************************************)
(* getCoinOfValue                                                          *)
(***************************************************************************)

\* most coins a getCoins page holds
MaxCoins == 3

\* largest coinValue asked for
MaxValue == 2

SUI == <<"0", "x", "2", ":", ":", "s", "u", "i", ":", ":", "S", "U", "I">>

\* "0x" then n zero digits then the rest
Padded(n, rest) == <<"0", "x">> \o Zeros(n) \o rest

CoinTypes ==
    {Padded(n, SubSeq(SUI, 3, Len(SUI))) : n \in 0..MaxPad}
        \cup {Padded(n, <<"a", ":", ":", "c", ":", ":", "C">>) : n \in 0..MaxPad}
        \cup {SubSeq(SUI, 1, Len(SUI) - 1), SubSeq(SUI, 3, Len(SUI))}

OwnerAddress == "0xowner"

CoinIds == 1..MaxCoins

\* the pages getCoins can answer with: distinct coins, possibly none
CoinPages ==
    {[data |-> [i \in 1..Len(ids) |-> [coinObjectId |-> ids[i]]], hasNextPage |-> more] :
        ids \in {s \in SeqsUpTo(CoinIds, MaxCoins) : \A i, j \in 1..Len(s) : i # j => s[i] # s[j]},
        more \in BOOLEAN}

\* the failures a client call can raise: Error objects, with or without a message
ClientErrors ==
    {[name |-> "Error", message |-> "fetch failed"], [name |-> "Error", message |-> ""]}

\* reading .coinObjectId of undefined
TypeErrorUndefined ==
    [name |-> "TypeError", message |-> "Cannot read properties of undefined"]

GasCoin == [kind |-> "GasCoin"]
InputRef(n) == [kind |-> "Input", index |-> n]
ResultRef(n) == [kind |-> "Result", index |-> n]

\* txb.object(id) and txb.pure(value) register an input; its reference is its index
ObjectInput(id) == [type |-> "object", value |-> id]
PureInput(value) == [type |-> "pure", value |-> value]

MergeCoins(destination, sources) ==
    [op |-> "MergeCoins", destination |-> destination, sources |-> sources]
SplitCoins(coin, amounts) ==
    [op |-> "SplitCoins", coin |-> coin, amounts |-> amounts]

\* otherCoins.length > 0
ShouldMergeAlways(otherCoins) == TRUE
ShouldMerge(otherCoins) == Len(otherCoins) > 0

\* otherCoins.map(coin => coin.coinObjectId)
CoinObjectIds(coins) == [i \in 1..Len(coins) |-> coins[i].coinObjectId]

\* What lines 133-138 do to a fresh TransactionBlock given the page's data:
\* the inputs registered, the commands appended, and the result or the error.
\* Destructuring an empty array leaves firstCoin undefined, and the read of
\* firstCoin.coinObjectId throws before txb.object is called.
ConsolidateUnitsLenient(data, value) ==
    LET firstCoinInput == InputRef(0)
        first == IF data = <<>> THEN "undefined" ELSE Head(data).coinObjectId
    IN  [threw |-> FALSE, err |-> None,
         inputs |-> <<ObjectInput(first), PureInput(value)>>,
         commands |-> <<SplitCoins(firstCoinInput, <<InputRef(1)>>)>>,
         result |-> Some(ResultRef(0))]
ConsolidateUnits(data, value) ==
    IF data = <<>>
    THEN [threw |-> TRUE, err |-> Some(TypeErrorUndefined),
          inputs |-> <<>>, commands |-> <<>>, result |-> None]
    ELSE LET firstCoin == Head(data)
             otherCoins == Tail(data)
             firstCoinInput == InputRef(0)
             merge == IF ShouldMerge(otherCoins)
                      THEN <<MergeCoins(firstCoinInput, CoinObjectIds(otherCoins))>>
                      ELSE <<>>
         IN  [threw |-> FALSE, err |-> None,
              inputs |-> <<ObjectInput(firstCoin.coinObjectId), PureInput(value)>>,
              commands |-> Append(merge, SplitCoins(firstCoinInput, <<InputRef(1)>>)),
              result |-> Some(ResultRef(Len(merge)))]

\* how a getCoins failure reaches the caller: the await rethrows it
Rethrow(err) == err

\* lines 124-126: the normalized type is the gas coin; split it off txb.gas
GetCoinOfValueGas ==
    /\ coinPc = "start"
    /\ removeLeadingZeros(coinType) = SUI
    /\ coinType' = removeLeadingZeros(coinType)
    /\ txInputs' = Append(txInputs, PureInput(coinValue))
    /\ txCommands' = Append(txCommands, SplitCoins(GasCoin, <<InputRef(Len(txInputs))>>))
    /\ coinOfValue' = Some(ResultRef(Len(txCommands)))
    /\ coinPc' = "done"
    /\ UNCHANGED <<coinTypeArg, coinValue, getCoinsCalls, paginatedCoins, coinErr,
                   lookupErr>>
    /\ UNCHANGED notCoinVars

\* lines 124-129: any other type; ask the client for the owner's coins and await
GetCoinOfValueLookup ==
    /\ coinPc = "start"
    /\ removeLeadingZeros(coinType) # SUI
    /\ coinType' = removeLeadingZeros(coinType)
    /\ getCoinsCalls' = Append(getCoinsCalls,
                               [owner |-> OwnerAddress, coinType |-> coinType'])
    /\ coinPc' = "lookup"
    /\ UNCHANGED <<coinTypeArg, coinValue, paginatedCoins, txInputs, txCommands,
                   coinOfValue, coinErr, lookupErr>>
    /\ UNCHANGED notCoinVars

\* lines 133-140: getCoins resolved with a page
GetCoinsResolved ==
    /\ coinPc = "lookup"
    /\ \E page \in CoinPages :
         LET built == ConsolidateUnits(page.data, coinValue)
         IN  /\ paginatedCoins' = Some(page)
             /\ txInputs' = txInputs \o built.inputs
             /\ txCommands' = txCommands \o built.commands
             /\ coinOfValue' = built.result
             /\ coinErr' = built.err
             /\ coinPc' = IF built.threw THEN "failed" ELSE "done"
    /\ UNCHANGED <<coinTypeArg, coinType, coinValue, getCoinsCalls, lookupErr>>
    /\ UNCHANGED notCoinVars

\* line 129: getCoins rejected; the await throws out of getCoinOfValue
GetCoinsRejected ==
    /\ coinPc = "lookup"
    /\ \E err \in ClientErrors :
         /\ lookupErr' = Some(err)
         /\ coinErr' = Some(Rethrow(err))
    /\ coinPc' = "failed"
    /\ UNCHANGED <<coinTypeArg, coinType, coinValue, getCoinsCalls, paginatedCoins,
                   txInputs, txCommands, coinOfValue>>
    /\ UNCHANGED notCoinVars

NextCoin ==
    \/ GetCoinOfValueGas
    \/ GetCoinOfValueLookup
    \/ GetCoinsResolved
    \/ GetCoinsRejected

(***************************************************************************)
(* fetchAllDynamicFields                                                   *)
(***************************************************************************)

\* most pages the server holds for a parent
MaxPages == 3

\* most items on a page
MaxPageSize == 2

\* sleepBetweenRequests = 333
DefaultSleep == 333

\* The server's pages for per-page item counts `sizes` and hasNextPage flags
\* `more`: item j of page k is <<k, j>>, page k's nextCursor names page k, and
\* the last page held never reports a next page.
MakePages(sizes, more) ==
    [k \in 1..Len(sizes) |->
        [data |-> [j \in 1..sizes[k] |-> <<k, j>>],
         hasNextPage |-> (k < Len(sizes) /\ more[k]),
         nextCursor |-> Some(k)]]

ServerPages ==
    {MakePages(sizes, more) :
        sizes \in SeqsUpTo(0..MaxPageSize, MaxPages) \ {<<>>},
        more \in [1..MaxPages -> BOOLEAN]}

\* the page the server answers a request with: the first one for a null cursor,
\* else the one after the page the cursor names
PageFor(c) == IF c = None THEN 1 ELSE c[1] + 1

\* allFieldsInfo.push(...page.data)
PushAllFront(acc, data) == data \o acc
PushAll(acc, data) == acc \o data

\* How a rejected getDynamicFields leaves fetchAllDynamicFields: nothing catches
\* it, so the call rejects with it and returns nothing.
OnPageRejectedPartial(acc, err) ==
    [pc |-> "done", returned |-> Some(acc), err |-> None]
OnPageRejected(acc, err) ==
    [pc |-> "failed", returned |-> None, err |-> Some(err)]

\* lines 81-86: the loop condition holds; request the page at the cursor and await
RequestPage ==
    /\ fetchPc = "loop"
    /\ hasNextPage
    /\ pageNumber' = pageNumber + 1
    /\ requests' = Append(requests, cursor)
    /\ fetchPc' = "awaitPage"
    /\ UNCHANGED <<pages, sleepBetweenRequests, allFieldsInfo, hasNextPage, cursor,
                   sleeps, fetchReturned, fetchErr, pageErr>>
    /\ UNCHANGED notFetchVars

\* lines 87-93: the page arrived; the then-callback accumulates it and sleeps
PageResolved ==
    /\ fetchPc = "awaitPage"
    /\ PageFor(Last(requests)) \in DOMAIN pages
    /\ LET page == pages[PageFor(Last(requests))]
       IN  /\ allFieldsInfo' = PushAll(allFieldsInfo, page.data)
           /\ hasNextPage' = page.hasNextPage
           /\ cursor' = page.nextCursor
    /\ IF sleepBetweenRequests > 0
       THEN /\ sleeps' = Append(sleeps, Len(requests))
            /\ fetchPc' = "sleep"
       ELSE /\ sleeps' = sleeps
            /\ fetchPc' = "loop"
    /\ UNCHANGED <<pages, sleepBetweenRequests, pageNumber, requests,
                   fetchReturned, fetchErr, pageErr>>
    /\ UNCHANGED notFetchVars

\* line 86: the request failed; the await throws out of the loop
PageRejected ==
    /\ fetchPc = "awaitPage"
    /\ \E err \in ClientErrors :
         LET out == OnPageRejected(allFieldsInfo, err)
         IN  /\ pageErr' = Some(err)
             /\ fetchPc' = out.pc
             /\ fetchReturned' = out.returned
             /\ fetchErr' = out.err
    /\ UNCHANGED <<pages, sleepBetweenRequests, allFieldsInfo, hasNextPage, cursor,
                   pageNumber, requests, sleeps>>
    /\ UNCHANGED notFetchVars

\* line 92: the sleep's timer fired; the callback's promise resolves
SleepDone ==
    /\ fetchPc = "sleep"
    /\ fetchPc' = "loop"
    /\ UNCHANGED <<pages, sleepBetweenRequests, allFieldsInfo, hasNextPage, cursor,
                   pageNumber, requests, sleeps, fetchReturned, fetchErr, pageErr>>
    /\ UNCHANGED notFetchVars

\* lines 81, 96: the loop condition fails; return the accumulated fields
ReturnFields ==
    /\ fetchPc = "loop"
    /\ ~hasNextPage
    /\ fetchReturned' = Some(allFieldsInfo)
    /\ fetchPc' = "done"
    /\ UNCHANGED <<pages, sleepBetweenRequests, allFieldsInfo, hasNextPage, cursor,
                   pageNumber, requests, sleeps, fetchErr, pageErr>>
    /\ UNCHANGED notFetchVars

NextFetch ==
    \/ RequestPage
    \/ PageResolved
    \/ PageRejected
    \/ SleepDone
    \/ ReturnFields

(***************************************************************************)
(* testRpcLatency, and runTest's sort of what it returns                   *)
(***************************************************************************)

\* most endpoints in a call
MaxEndpoints == 3

\* the latency runTest's comparator gives a result without one
Sentinel == 99999

Urls == {"A", "B"}

\* the readings of performance.now() a run can see, in milliseconds
ClockValues == {0, 1, Sentinel, Sentinel + 1}

\* the failures `new SuiClient({ url })` can raise
CtorErrors == {[name |-> "TypeError", message |-> "Invalid URL"]}

\* String(err) of an Error: its name and message, or the name alone
ErrorMessageOnly(err) == err.message
ErrorToString(err) ==
    IF err.message = "" THEN err.name ELSE err.name \o ": " \o err.message

Pending == [status |-> "pending", value |-> None]
Fulfilled(v) == [status |-> "fulfilled", value |-> Some(v)]
Rejected(err) == [status |-> "rejected", value |-> Some(err)]

\* line 343: the callback returns the latency
OnSuccess(url, latency) == Fulfilled([endpoint |-> url, latency |-> latency])

\* lines 345-347: the callback catches whatever the try block threw
OnCatchRethrow(url, err) == Rejected(err)
OnCatch(url, err) == Fulfilled([endpoint |-> url, error |-> ErrorToString(err)])

IsSettled(t) == t.status \in {"fulfilled", "rejected"}

\* Promise.allSettled(promises) resolves once every promise has settled
AnySettled(ts) == ts = <<>> \/ \E i \in DOMAIN ts : IsSettled(ts[i])
AllSettled(ts) == \A i \in DOMAIN ts : IsSettled(ts[i])

\* lines 351-361: one settled promise's entry in the returned array
SettledToResult(t) ==
    IF t.status = "fulfilled"
    THEN t.value[1]
    ELSE [endpoint |-> "Unknown endpoint",
          error |-> IF t.value = None \/ t.value[1].message = ""
                    THEN "Unknown error"
                    ELSE t.value[1].message]

\* a.latency ?? 99999
SortKey(r) == IF "latency" \in DOMAIN r THEN r.latency ELSE Sentinel

\* Array.prototype.sort with the comparator of line 22: ascending by SortKey,
\* and stable, so results with equal keys keep their order
RECURSIVE SortByLatency(_)
SortByLatency(s) ==
    IF s = <<>> THEN <<>>
    ELSE LET sorted == SortByLatency(SubSeq(s, 1, Len(s) - 1))
             x == Last(s)
             p == Cardinality({i \in DOMAIN sorted : SortKey(sorted[i]) <= SortKey(x)})
         IN  SubSeq(sorted, 1, p) \o <<x>> \o SubSeq(sorted, p + 1, Len(sorted))

\* performance.now() moves on
Tick ==
    /\ mainPc \in {"map", "await"}
    /\ \E t \in ClockValues : t > clock /\ clock' = t
    /\ UNCHANGED <<endpoints, mainPc, nextIdx, tasks, outcome, startTime, issued,
                   results, newResults>>
    /\ UNCHANGED notProbeVars

\* lines 320-340: map calls the callback for the next endpoint, which runs to
\* its await: the client is built, the start time taken and the request issued
IssueCall ==
    /\ mainPc = "map"
    /\ nextIdx <= Len(endpoints)
    /\ tasks' = [tasks EXCEPT ![nextIdx] = Pending]
    /\ startTime' = [startTime EXCEPT ![nextIdx] = Some(clock)]
    /\ issued' = Append(issued, nextIdx)
    /\ nextIdx' = nextIdx + 1
    /\ UNCHANGED <<endpoints, mainPc, outcome, clock, results, newResults>>
    /\ UNCHANGED notProbeVars

\* lines 323, 345-347: the client's constructor throws; the callback's catch
\* turns that into its result and no request is issued
ConstructorThrows ==
    /\ mainPc = "map"
    /\ nextIdx <= Len(endpoints)
    /\ \E err \in CtorErrors :
         tasks' = [tasks EXCEPT ![nextIdx] = OnCatch(endpoints[nextIdx], err)]
    /\ outcome' = [outcome EXCEPT ![nextIdx] = "ctorThrew"]
    /\ nextIdx' = nextIdx + 1
    /\ UNCHANGED <<endpoints, mainPc, startTime, issued, clock, results,
                   newResults>>
    /\ UNCHANGED notProbeVars

\* line 350: the map is over; testRpcLatency awaits Promise.allSettled
AwaitAllSettled ==
    /\ mainPc = "map"
    /\ nextIdx > Len(endpoints)
    /\ mainPc' = "await"
    /\ UNCHANGED <<endpoints, nextIdx, tasks, outcome, startTime, issued, clock,
                   results, newResults>>
    /\ UNCHANGED notProbeVars

\* lines 342-343: a request resolved; its callback resumes once the running
\* code has yielded, and returns the elapsed time
CallResolved(i) ==
    /\ mainPc = "await"
    /\ tasks[i].status = "pending"
    /\ tasks' = [tasks EXCEPT ![i] = OnSuccess(endpoints[i], clock - startTime[i][1])]
    /\ outcome' = [outcome EXCEPT ![i] = "resolved"]
    /\ UNCHANGED <<endpoints, mainPc, nextIdx, startTime, issued, clock,
                   results, newResults>>
    /\ UNCHANGED notProbeVars

\* lines 345-347: a request rejected; its callback's catch returns the error
CallRejected(i) ==
    /\ mainPc = "await"
    /\ tasks[i].status = "pending"
    /\ \E err \in ClientErrors :
         tasks' = [tasks EXCEPT ![i] = OnCatch(endpoints[i], err)]
    /\ outcome' = [outcome EXCEPT ![i] = "rejected"]
    /\ UNCHANGED <<endpoints, mainPc, nextIdx, startTime, issued, clock,
                   results, newResults>>
    /\ UNCHANGED notProbeVars

\* lines 350-361: allSettled resolved; testRpcLatency returns the mapped results
ReturnResults ==
    /\ mainPc = "await"
    /\ AllSettled(tasks)
    /\ results' = Some([i \in DOMAIN tasks |-> SettledToResult(tasks[i])])
    /\ mainPc' = "returned"
    /\ UNCHANGED <<endpoints, nextIdx, tasks, outcome, startTime, issued, clock,
                   newResults>>
    /\ UNCHANGED notProbeVars

\* PageHome.tsx lines 19-23: runTest sorts the returned array and shows it
RunTestSort ==
    /\ mainPc = "returned"
    /\ newResults' = Some(SortByLatency(results[1]))
    /\ mainPc' = "shown"
    /\ UNCHANGED <<endpoints, nextIdx, tasks, outcome, startTime, issued, clock,
                   results>>
    /\ UNCHANGED notProbeVars

NextProbe ==
    \/ Tick
    \/ IssueCall
    \/ ConstructorThrows
    \/ AwaitAllSettled
    \/ \E i \in DOMAIN endpoints : CallResolved(i)
    \/ \E i \in DOMAIN endpoints : CallRejected(i)
    \/ ReturnResults
    \/ RunTestSort

(***************************************************************************)
(* Specifications: one per operation. Each starts one call of its          *)
(* operation on arguments drawn from the bounded sets, with a fresh        *)
(* TransactionBlock, and leaves the other operations' state idle.          *)
(***************************************************************************)

InitRlz ==
    \* the call: removeLeadingZeros
    /\ address \in SeqsUpTo(Alphabet, MaxLen) \cup {LongTwo}
    /\ rlzOut = <<>>
    \* idle: getCoinOfValue
    /\ coinTypeArg = SUI
    /\ coinType = SUI
    /\ coinValue = 1
    /\ coinPc = "done"
    /\ getCoinsCalls = <<>>
    /\ paginatedCoins = None
    /\ txInputs = <<>>
    /\ txCommands = <<>>
    /\ coinOfValue = None
    /\ coinErr = None
    /\ lookupErr = None
    \* idle: fetchAllDynamicFields
    /\ pages = <<>>
    /\ sleepBetweenRequests = 0
    /\ fetchPc = "done"
    /\ allFieldsInfo = <<>>
    /\ hasNextPage = FALSE
    /\ cursor = None
    /\ pageNumber = 1
    /\ requests = <<>>
    /\ sleeps = <<>>
    /\ fetchReturned = None
    /\ fetchErr = None
    /\ pageErr = None
    \* idle: testRpcLatency
    /\ endpoints = <<>>
    /\ mainPc = "shown"
    /\ nextIdx = 1
    /\ tasks = <<>>
    /\ outcome = <<>>
    /\ startTime = <<>>
    /\ issued = <<>>
    /\ clock = 0
    /\ results = None
    /\ newResults = None

NextRlz ==
    \/ Normalize

SpecRlz == InitRlz /\ [][NextRlz]_vars

InitCoin ==
    \* idle: removeLeadingZeros
    /\ address = <<>>
    /\ rlzOut = <<>>
    \* the call: getCoinOfValue
    /\ coinTypeArg \in CoinTypes
    /\ coinType = coinTypeArg
    /\ coinValue \in 1..MaxValue
    /\ coinPc = "start"
    /\ getCoinsCalls = <<>>
    /\ paginatedCoins = None
    /\ txInputs = <<>>
    /\ txCommands = <<>>
    /\ coinOfValue = None
    /\ coinErr = None
    /\ lookupErr = None
    \* idle: fetchAllDynamicFields
    /\ pages = <<>>
    /\ sleepBetweenRequests = 0
    /\ fetchPc = "done"
    /\ allFieldsInfo = <<>>
    /\ hasNextPage = FALSE
    /\ cursor = None
    /\ pageNumber = 1
    /\ requests = <<>>
    /\ sleeps = <<>>
    /\ fetchReturned = None
    /\ fetchErr = None
    /\ pageErr = None
    \* idle: testRpcLatency
    /\ endpoints = <<>>
    /\ mainPc = "shown"
    /\ nextIdx = 1
    /\ tasks = <<>>
    /\ outcome = <<>>
    /\ startTime = <<>>
    /\ issued = <<>>
    /\ clock = 0
    /\ results = None
    /\ newResults = None

SpecCoin == InitCoin /\ [][NextCoin]_vars

InitFetch ==
    \* idle: removeLeadingZeros
    /\ address = <<>>
    /\ rlzOut = <<>>
    \* idle: getCoinOfValue
    /\ coinTypeArg = SUI
    /\ coinType = SUI
    /\ coinValue = 1
    /\ coinPc = "done"
    /\ getCoinsCalls = <<>>
    /\ paginatedCoins = None
    /\ txInputs = <<>>
    /\ txCommands = <<>>
    /\ coinOfValue = None
    /\ coinErr = None
    /\ lookupErr = None
    \* the call: fetchAllDynamicFields
    /\ pages \in ServerPages
    /\ sleepBetweenRequests \in {0, DefaultSleep}
    /\ fetchPc = "loop"
    /\ allFieldsInfo = <<>>
    /\ hasNextPage = TRUE
    /\ cursor = None
    /\ pageNumber = 1
    /\ requests = <<>>
    /\ sleeps = <<>>
    /\ fetchReturned = None
    /\ fetchErr = None
    /\ pageErr = None
    \* idle: testRpcLatency
    /\ endpoints = <<>>
    /\ mainPc = "shown"
    /\ nextIdx = 1
    /\ tasks = <<>>
    /\ outcome = <<>>
    /\ startTime = <<>>
    /\ issued = <<>>
    /\ clock = 0
    /\ results = None
    /\ newResults = None

SpecFetch == InitFetch /\ [][NextFetch]_vars

InitProbe ==
    \* idle: removeLeadingZeros
    /\ address = <<>>
    /\ rlzOut = <<>>
    \* idle: getCoinOfValue
    /\ coinTypeArg = SUI
    /\ coinType = SUI
    /\ coinValue = 1
    /\ coinPc = "done"
    /\ getCoinsCalls = <<>>
    /\ paginatedCoins = None
    /\ txInputs = <<>>
    /\ txCommands = <<>>
    /\ coinOfValue = None
    /\ coinErr = None
    /\ lookupErr = None
    \* idle: fetchAllDynamicFields
    /\ pages = <<>>
    /\ sleepBetweenRequests = 0
    /\ fetchPc = "done"
    /\ allFieldsInfo = <<>>
    /\ hasNextPage = FALSE
    /\ cursor = None
    /\ pageNumber = 1
    /\ requests = <<>>
    /\ sleeps = <<>>
    /\ fetchReturned = None
    /\ fetchErr = None
    /\ pageErr = None
    \* the call: testRpcLatency
    /\ endpoints \in SeqsUpTo(Urls, MaxEndpoints)
    /\ mainPc = "map"
    /\ nextIdx = 1
    /\ tasks = [i \in DOMAIN endpoints |-> [status |-> "unstarted", value |-> None]]
    /\ outcome = [i \in DOMAIN endpoints |-> "none"]
    /\ startTime = [i \in DOMAIN endpoints |-> None]
    /\ issued = <<>>
    /\ clock = 0
    /\ results = None
    /\ newResults = None

SpecProbe == InitProbe /\ [][NextProbe]_vars

(***************************************************************************)
(* Properties of removeLeadingZeros (SpecRlz)                              *)
(***************************************************************************)

ZeroXTwo == <<"0", "x", "2">>

\* C8: removeLeadingZeros is idempotent: applying it to its own result gives
\* that result again, for every address over the alphabet; and "0x", any
\* number of zeros, then "2" maps to "0x2" (the 64-digit form included),
\* which maps to itself.
C8_Idempotent ==
    /\ Len(rlzOut) = 2 => rlzOut[2] = rlzOut[1]
    /\ Len(rlzOut) >= 1 =>
         /\ \A n \in 0..MaxLen : address = Padded(n, <<"2">>) => rlzOut[1] = ZeroXTwo
         /\ address = LongTwo => rlzOut[1] = ZeroXTwo

\* the 64-digit address was normalized twice
C8_Witness ==
    /\ address = LongTwo
    /\ Len(rlzOut) = 2
    /\ rlzOut[1] # address

(***************************************************************************)
(* Properties of getCoinOfValue (SpecCoin)                                 *)
(***************************************************************************)

\* "0x", zeros, then "2::sui::SUI": the spellings of the gas coin's type
IsGasForm(t) == \E n \in 0..MaxPad : t = Padded(n, SubSeq(SUI, 3, Len(SUI)))

CountOp(commands, op) == Cardinality({i \in DOMAIN commands : commands[i].op = op})

\* C5: for a non-gas coin whose lookup returned N >= 1 coins: with N = 1 no
\* merge and exactly one split; with N > 1 exactly one merge, into the first
\* coin returned, of exactly the other N-1 coins in returned order, then
\* exactly one split of the value from that first coin; and the lookup comes
\* before any merge or split.
C5_MergeThenSplit ==
    /\ coinPc \in {"start", "lookup"} /\ ~IsGasForm(coinTypeArg) => txCommands = <<>>
    /\ (coinPc = "done" /\ paginatedCoins # None) =>
         LET data == paginatedCoins[1].data
             N == Len(data)
             split == Last(txCommands)
         IN  /\ N >= 1
             /\ Len(getCoinsCalls) = 1
             /\ CountOp(txCommands, "SplitCoins") = 1
             /\ CountOp(txCommands, "MergeCoins") = IF N > 1 THEN 1 ELSE 0
             /\ Len(txCommands) = IF N > 1 THEN 2 ELSE 1
             /\ split.op = "SplitCoins"
             /\ split.coin.kind = "Input"
             /\ txInputs[split.coin.index + 1] = [type |-> "object", value |-> data[1].coinObjectId]
             /\ Len(split.amounts) = 1
             /\ txInputs[split.amounts[1].index + 1] = [type |-> "pure", value |-> coinValue]
             /\ N > 1 =>
                  /\ txCommands[1].op = "MergeCoins"
                  /\ txCommands[1].destination = split.coin
                  /\ Len(txCommands[1].sources) = N - 1
                  /\ \A i \in 1..(N - 1) : txCommands[1].sources[i] = data[i + 1].coinObjectId

\* a lookup that returned several coins was merged and split
C5_Witness ==
    /\ coinPc = "done"
    /\ paginatedCoins # None
    /\ Len(paginatedCoins[1].data) >= 2
    /\ Len(txCommands) = 2

\* C6: for every spelling of the gas coin's type, zero-padded or not,
\* getCoinOfValue never asks the client for coins and never merges: all it
\* does to the transaction is one split of the value from the gas coin.
C6_GasNoLookup ==
    IsGasForm(coinTypeArg) =>
        /\ getCoinsCalls = <<>>
        /\ coinPc \in {"start", "done"}
        /\ coinPc = "start" => txInputs = <<>> /\ txCommands = <<>>
        /\ coinPc = "done" =>
             /\ txInputs = <<[type |-> "pure", value |-> coinValue]>>
             /\ txCommands = <<[op |-> "SplitCoins", coin |-> [kind |-> "GasCoin"],
                                amounts |-> <<[kind |-> "Input", index |-> 0]>>]>>
             /\ coinOfValue = Some([kind |-> "Result", index |-> 0])

\* the zero-padded gas type was served
C6_Witness ==
    /\ coinTypeArg = Padded(MaxPad, SubSeq(SUI, 3, Len(SUI)))
    /\ coinTypeArg # SUI
    /\ coinPc = "done"

\* C9: getCoinOfValue fails when the lookup fails or returns no coin, and a
\* failed call has rejected with an error, has registered no input and added
\* no merge and no split, and made exactly one lookup; a lookup failure is
\* the rejection, unchanged.
C9_FailsClean ==
    /\ lookupErr # None => coinPc = "failed" /\ coinErr = lookupErr
    /\ (paginatedCoins # None /\ paginatedCoins[1].data = <<>>) => coinPc = "failed"
    /\ coinPc = "failed" =>
         /\ coinErr # None
         /\ coinOfValue = None
         /\ txInputs = <<>>
         /\ txCommands = <<>>
         /\ Len(getCoinsCalls) = 1

\* the lookup returned no coin
C9_Witness ==
    /\ coinPc = "failed"
    /\ paginatedCoins # None
    /\ paginatedCoins[1].data = <<>>

(***************************************************************************)
(* Properties of fetchAllDynamicFields (SpecFetch)                         *)
(***************************************************************************)

\* the items of the server's first n pages, page by page
RECURSIVE ItemsUpTo(_)
ItemsUpTo(n) == IF n = 0 THEN <<>> ELSE ItemsUpTo(n - 1) \o pages[n].data

\* only the last page reports no further pages
OnlyLastIsFinal == \A k \in 1..(Len(pages) - 1) : pages[k].hasNextPage

\* the first page that reports no further pages
FirstFinal == CHOOSE k \in DOMAIN pages :
    /\ ~pages[k].hasNextPage
    /\ \A j \in 1..(k - 1) : pages[j].hasNextPage

\* C7: a fetch that returned made exactly one request per page up to the
\* first page reporting no further pages (all of them when only the last
\* does), the first with no cursor and each later one with the previous
\* page's nextCursor, and returned those pages' items in page-then-item
\* order; it never makes more requests than that.
C7_DrainsInOrder ==
    /\ pages # <<>> => Len(requests) <= FirstFinal
    /\ fetchPc = "done" /\ pages # <<>> =>
         /\ Len(requests) = FirstFinal
         /\ OnlyLastIsFinal => Len(requests) = Len(pages)
         /\ requests[1] = None
         /\ \A k \in 2..Len(requests) : requests[k] = pages[k - 1].nextCursor
         /\ fetchReturned = Some(ItemsUpTo(FirstFinal))

\* pages of sizes 2, 2, 1 were fetched: five items
C7_Witness ==
    /\ fetchPc = "done"
    /\ Len(pages) = 3
    /\ OnlyLastIsFinal
    /\ Len(pages[1].data) = 2 /\ Len(pages[2].data) = 2 /\ Len(pages[3].data) = 1
    /\ fetchReturned # None
    /\ Len(fetchReturned[1]) = 5

\* C10: when the request for page k fails, the call rejects with that
\* failure and returns nothing, not even the items of pages 1..k-1; page k
\* was requested once and no later page was requested.
C10_AbortsOnFailure ==
    /\ pageErr # None => fetchPc = "failed"
    /\ fetchPc = "failed" =>
         LET k == Len(requests)
         IN  /\ fetchErr # None
             /\ fetchErr = pageErr
             /\ fetchReturned = None
             /\ k >= 1
             /\ allFieldsInfo = ItemsUpTo(k - 1)
             /\ \A i, j \in 1..k : i # j => requests[i] # requests[j]
             /\ ~ENABLED RequestPage

\* a later page failed after items had been accumulated
C10_Witness ==
    /\ fetchPc = "failed"
    /\ Len(requests) >= 2
    /\ allFieldsInfo # <<>>

\* C11: with a positive sleepBetweenRequests, a fetch that drained n pages
\* slept exactly n-1 times, each time after a page's response and before the
\* next page's request, and not after the final page.
C11_SleepsBetweenRequests ==
    (fetchPc = "done" /\ sleepBetweenRequests > 0) =>
        /\ Len(sleeps) = Len(requests) - 1
        /\ \A i \in DOMAIN sleeps : sleeps[i] = i /\ sleeps[i] < Len(requests)


(***************************************************************************)
(* Properties of testRpcLatency and runTest (SpecProbe)                    *)
(***************************************************************************)

Returned == mainPc \in {"returned", "shown"}

IsLatency(r) == "latency" \in DOMAIN r /\ "error" \notin DOMAIN r
IsFailure(r) == "error" \in DOMAIN r /\ "latency" \notin DOMAIN r

\* how many entries of s name the endpoint u
CountUrl(s, u) == Cardinality({i \in DOMAIN s : s[i] = u})

\* C1: for every endpoint list, empty or with duplicates, and every mix of
\* successes and failures, no callback's promise rejects and the returned
\* array has one result per endpoint: as many results as endpoints, each
\* endpoint named by as many results as it has entries, none of them the
\* "Unknown endpoint" fallback.
C1_OneResultPerEndpoint ==
    /\ \A i \in DOMAIN tasks : tasks[i].status # "rejected"
    /\ Returned =>
         LET names == [i \in DOMAIN results[1] |-> results[1][i].endpoint]
         IN  /\ Len(results[1]) = Len(endpoints)
             /\ \A u \in Urls \cup {"Unknown endpoint"} :
                    CountUrl(names, u) = CountUrl(endpoints, u)

\* a list naming one endpoint twice, one probe failed, one succeeded
C1_Witness ==
    /\ Returned
    /\ \E i, j \in DOMAIN endpoints :
         /\ i # j
         /\ endpoints[i] = endpoints[j]
         /\ outcome[i] = "resolved"
         /\ outcome[j] \in {"rejected", "ctorThrew"}

\* the order stated for a probe's results:
\* latencies ascending, every failure after every latency
SortedFailuresLast(rs) ==
    \A i, j \in DOMAIN rs :
        i < j =>
            /\ (IsLatency(rs[i]) /\ IsLatency(rs[j])) => rs[i].latency <= rs[j].latency
            /\ ~(IsFailure(rs[i]) /\ IsLatency(rs[j]))

\* C2: the results of a probe are sorted ascending by latency, every failure
\* after every latency, whatever the latencies are. Stated of the array
\* runTest shows, which is the array testRpcLatency returned, sorted.
C2_SortedFailuresLast ==
    mainPc = "shown" => SortedFailuresLast(newResults[1])

\* C3: an endpoint whose client or call fails gets a failure result: its own
\* endpoint, a non-empty error, no latency; every other endpoint's result is
\* there and is a latency exactly when its own call resolved, whatever the
\* others did; and the batch returns although endpoints failed.
C3_FailureIsolated ==
    Returned =>
        /\ Len(results[1]) = Len(endpoints)
        /\ \A i \in DOMAIN endpoints :
             /\ results[1][i].endpoint = endpoints[i]
             /\ outcome[i] \in {"rejected", "ctorThrew"} =>
                  /\ IsFailure(results[1][i])
                  /\ results[1][i].error # ""
             /\ outcome[i] = "resolved" =>
                  /\ IsLatency(results[1][i])
                  /\ results[1][i].latency >= 0

\* one endpoint's call was rejected, another's resolved
C3_Witness ==
    /\ Returned
    /\ \E i, j \in DOMAIN endpoints :
         /\ outcome[i] = "rejected"
         /\ outcome[j] = "resolved"

\* C4: every endpoint's call is issued before any response is handled; the
\* call returns only once every probe has settled, with the whole result
\* set; while a call is still pending nothing is returned.
C4_FanOutFanIn ==
    /\ (\E i \in DOMAIN endpoints : outcome[i] \in {"resolved", "rejected"}) =>
         /\ nextIdx > Len(endpoints)
         /\ \A j \in DOMAIN endpoints :
              outcome[j] = "ctorThrew" \/ \E n \in DOMAIN issued : issued[n] = j
    /\ \A m, n \in DOMAIN issued : m < n => issued[m] < issued[n]
    /\ (\E i \in DOMAIN endpoints : ~IsSettled(tasks[i])) =>
         /\ results = None
         /\ ~Returned
    /\ Returned =>
         /\ \A i \in DOMAIN endpoints : outcome[i] # "none"
         /\ Len(results[1]) = Len(endpoints)

\* several calls were in flight and a later one was answered before an
\* earlier one
C4_Witness ==
    /\ Returned
    /\ \E i, j \in DOMAIN endpoints :
         /\ i < j
         /\ IsLatency(results[1][i]) /\ IsLatency(results[1][j])
         /\ results[1][i].latency > results[1][j].latency

====
